---- MODULE Spec2Model ----
(***************************************************************************)
(* Electricity Carbon Footprint Calculator (app.py).                       *)
(*                                                                         *)
(* Numbers.  A Python float is modelled as a tagged value: a finite real   *)
(* kept as an exact fraction num/den, or nan, or +/-inf.  Python computes  *)
(* in binary64 and round() rounds the binary value correctly; the result   *)
(* equals the rounding of the exact decimal value whenever that value is   *)
(* not exactly half-way between two candidates (the binary error is below  *)
(* 1e-12 here, the distance to a half-way point at least 1e-7).  The       *)
(* inputs of the model are chosen so that no rounding in the program hits  *)
(* an exact half-way point; RoundingIsExact states it and is checked.      *)
(*                                                                         *)
(* Text.  A form field and every number rendered into the report is a      *)
(* sequence of one-character strings, so that parsing (float()) and        *)
(* formatting (str(), f"{x}", f"{x:,}") are computed, not assumed.         *)
(***************************************************************************)
EXTENDS Integers, Sequences, FiniteSets, TLC

(***************************************************************************)
(* Bounds of the model.                                                    *)
(***************************************************************************)
\* monthly usages 0.000, 0.001, ... MaxMilli/1000 kWh are submitted
MaxMilli == 25
\* number of temporary files the file system may hold
MaxTempFiles == 2
\* calendar days the wall clock runs through
MaxDay == 2

(***************************************************************************)
(* Floats.                                                                 *)
(***************************************************************************)
Real(n, d) == [tag |-> "real", num |-> n, den |-> d]
NaN == [tag |-> "nan", num |-> 0, den |-> 1]
PosInf == [tag |-> "inf", num |-> 1, den |-> 1]
NegInf == [tag |-> "inf", num |-> -1, den |-> 1]

IsReal(x) == x.tag = "real"

Abs(n) == IF n < 0 THEN -n ELSE n

\* x == y for floats (nan equals nothing, 1806.0 == 1806.00)
FloatEq(x, y) ==
    IF x.tag = "nan" \/ y.tag = "nan" THEN FALSE
    ELSE IF x.tag = "inf" \/ y.tag = "inf" THEN x = y
    ELSE x.num * y.den = y.num * x.den

\* x < 0
IsNegative(x) ==
    IF x.tag = "nan" THEN FALSE ELSE x.num < 0

RECURSIVE GCD(_, _)
GCD(a, b) == IF b = 0 THEN a ELSE GCD(b, a % b)

\* the fraction x in lowest terms
Lowest(x) ==
    LET g == GCD(Abs(x.num), x.den)
    IN  Real(x.num \div g, x.den \div g)

\* x * c for a positive finite c (nan and inf pass through)
Mul(x, c) ==
    IF IsReal(x) THEN Lowest(Real(x.num * c.num, x.den * c.den)) ELSE x

\* x / c for a positive finite c
Div(x, c) ==
    IF IsReal(x) THEN Lowest(Real(x.num * c.den, x.den * c.num)) ELSE x

RECURSIVE Pow10(_)
Pow10(n) == IF n = 0 THEN 1 ELSE 10 * Pow10(n - 1)

\* the integer nearest to a/b (b > 0), a half-way value going to the even one
RoundHalfEven(a, b) ==
    LET fl == a \div b
        r == a % b
    IN  IF 2 * r > b THEN fl + 1
        ELSE IF 2 * r < b THEN fl
        ELSE IF fl % 2 = 0 THEN fl ELSE fl + 1

\* a/b lies exactly half-way between two integers
IsHalfWay(a, b) == 2 * (a % b) = b

\* round(x, ndigits): a float, nan and inf pass through
RoundTo(x, ndigits) ==
    IF IsReal(x)
    THEN Real(RoundHalfEven(x.num * Pow10(ndigits), x.den), Pow10(ndigits))
    ELSE x

NoExc == [type |-> "none", text |-> "", arg |-> <<>>]
Exc(t, s, a) == [type |-> t, text |-> s, arg |-> a]

\* round(x): an int; raises on nan and on inf
RoundInt(x) ==
    IF IsReal(x)
    THEN [exc |-> NoExc, val |-> Real(RoundHalfEven(x.num, x.den), 1)]
    ELSE IF x.tag = "nan"
    THEN [exc |-> Exc("ValueError", "cannot convert float NaN to integer", <<>>),
          val |-> x]
    ELSE [exc |-> Exc("OverflowError", "cannot convert float infinity to integer", <<>>),
          val |-> x]

(***************************************************************************)
(* Text: float(s), str(x) and the thousands format.                        *)
(***************************************************************************)
Digits == <<"0", "1", "2", "3", "4", "5", "6", "7", "8", "9">>

IsDigit(c) == \E i \in 1..10 : Digits[i] = c

DigitVal(c) == (CHOOSE i \in 1..10 : Digits[i] = c) - 1

RECURSIVE DigitsValue(_)
\* the number written by a sequence of digits
DigitsValue(s) ==
    IF s = <<>> THEN 0
    ELSE 10 * DigitsValue(SubSeq(s, 1, Len(s) - 1)) + DigitVal(s[Len(s)])

\* float(s) for a string s: [exc, val]
ParseString(s) ==
    LET signed == s # <<>> /\ s[1] \in {"-", "+"}
        neg == s # <<>> /\ s[1] = "-"
        body == IF signed THEN Tail(s) ELSE s
        dots == {i \in 1..Len(body) : body[i] = "."}
        dot == IF dots = {} THEN Len(body) + 1 ELSE CHOOSE i \in dots : TRUE
        ip == SubSeq(body, 1, dot - 1)
        fp == SubSeq(body, dot + 1, Len(body))
        numeric == /\ Cardinality(dots) <= 1
                   /\ Len(ip) + Len(fp) > 0
                   /\ \A i \in 1..Len(ip) : IsDigit(ip[i])
                   /\ \A i \in 1..Len(fp) : IsDigit(fp[i])
        mag == DigitsValue(ip \o fp)
    IN  IF body = <<"n", "a", "n">> THEN [exc |-> NoExc, val |-> NaN]
        ELSE IF body = <<"i", "n", "f">>
        THEN [exc |-> NoExc, val |-> IF neg THEN NegInf ELSE PosInf]
        ELSE IF numeric
        THEN [exc |-> NoExc,
              val |-> Real(IF neg THEN -mag ELSE mag, Pow10(Len(fp)))]
        ELSE [exc |-> Exc("ValueError", "could not convert string to float", s),
              val |-> NaN]

\* a form field: absent, or present with its text
Missing == [present |-> FALSE, text |-> <<>>]
Field(s) == [present |-> TRUE, text |-> s]

\* float(request.form.get(name)): None raises TypeError
ParseFloat(f) ==
    IF f.present THEN ParseString(f.text)
    ELSE [exc |-> Exc("TypeError",
                      "float() argument must be a string or a real number, not 'NoneType'",
                      <<>>),
          val |-> NaN]

RECURSIVE NatStr(_)
\* the decimal digits of a natural number
NatStr(n) ==
    IF n < 10 THEN <<Digits[n + 1]>>
    ELSE NatStr(n \div 10) \o <<Digits[(n % 10) + 1]>>

RECURSIVE PadStr(_, _)
\* n written with at least w digits
PadStr(n, w) ==
    IF w <= 1 THEN NatStr(n)
    ELSE IF n < Pow10(w - 1) THEN <<"0">> \o PadStr(n, w - 1)
    ELSE NatStr(n)

RECURSIVE Reduce10(_, _)
\* num/den with trailing decimal zeros removed
Reduce10(n, d) ==
    IF d > 1 /\ n % 10 = 0 THEN Reduce10(n \div 10, d \div 10) ELSE <<n, d>>

RECURSIVE Log10(_)
Log10(d) == IF d <= 1 THEN 0 ELSE 1 + Log10(d \div 10)

\* str(x) of a float: shortest decimal, at least one digit after the point
FloatStr(x) ==
    IF x.tag = "nan" THEN <<"n", "a", "n">>
    ELSE IF x.tag = "inf"
    THEN IF x.num < 0 THEN <<"-", "i", "n", "f">> ELSE <<"i", "n", "f">>
    ELSE LET r == Reduce10(Abs(x.num), x.den)
             n == r[1]
             d == r[2]
             sg == IF x.num < 0 THEN <<"-">> ELSE <<>>
         IN  IF d = 1 THEN sg \o NatStr(n) \o <<".", "0">>
             ELSE sg \o NatStr(n \div d) \o <<".">> \o PadStr(n % d, Log10(d))

RECURSIVE Grouped(_)
\* digits with a comma before every group of three from the right
Grouped(s) ==
    IF Len(s) <= 3 THEN s
    ELSE Grouped(SubSeq(s, 1, Len(s) - 3)) \o <<",">> \o SubSeq(s, Len(s) - 2, Len(s))

\* f"{n:,}" of an int
IntCommaStr(x) ==
    (IF x.num < 0 THEN <<"-">> ELSE <<>>) \o Grouped(NatStr(Abs(x.num)))

(***************************************************************************)
(* Constants for calculations.                                             *)
(***************************************************************************)
EMISSION_FACTOR == Real(82, 100)
MONTHS_PER_YEAR == Real(12, 1)
\* kg CO2 one tree absorbs per year
KG_PER_TREE == Real(22, 1)
\* miles driven per kg CO2
MILES_PER_KG == Real(23, 10)

(***************************************************************************)
(* calculate_carbon_footprint(monthly_usage_kwh): [exc, result].           *)
(***************************************************************************)
NoResult ==
    [annual_usage |-> NaN, annual_emissions |-> NaN,
     trees_needed |-> NaN, car_miles |-> NaN]

\* a variant that rounds annual_usage before applying the emission factor
calculate_carbon_footprint_RoundsUsageFirst(monthly_usage_kwh) ==
    LET annual_usage == RoundTo(Mul(monthly_usage_kwh, MONTHS_PER_YEAR), 2)
        annual_emissions == Mul(annual_usage, EMISSION_FACTOR)
        trees_needed == RoundTo(Div(annual_emissions, KG_PER_TREE), 1)
        car_miles == RoundInt(Mul(annual_emissions, MILES_PER_KG))
    IN  IF car_miles.exc # NoExc
        THEN [exc |-> car_miles.exc, result |-> NoResult]
        ELSE [exc |-> NoExc,
              result |-> [annual_usage |-> annual_usage,
                          annual_emissions |-> RoundTo(annual_emissions, 2),
                          trees_needed |-> trees_needed,
                          car_miles |-> car_miles.val]]

\* a variant that derives the two metrics from the rounded annual_emissions
calculate_carbon_footprint_UsesRoundedEmissions(monthly_usage_kwh) ==
    LET annual_usage == Mul(monthly_usage_kwh, MONTHS_PER_YEAR)
        annual_emissions == RoundTo(Mul(annual_usage, EMISSION_FACTOR), 2)
        trees_needed == RoundTo(Div(annual_emissions, KG_PER_TREE), 1)
        car_miles == RoundInt(Mul(annual_emissions, MILES_PER_KG))
    IN  IF car_miles.exc # NoExc
        THEN [exc |-> car_miles.exc, result |-> NoResult]
        ELSE [exc |-> NoExc,
              result |-> [annual_usage |-> RoundTo(annual_usage, 2),
                          annual_emissions |-> annual_emissions,
                          trees_needed |-> trees_needed,
                          car_miles |-> car_miles.val]]

calculate_carbon_footprint(monthly_usage_kwh) ==
    LET annual_usage == Mul(monthly_usage_kwh, MONTHS_PER_YEAR)
        annual_emissions == Mul(annual_usage, EMISSION_FACTOR)
        trees_needed == RoundTo(Div(annual_emissions, KG_PER_TREE), 1)
        car_miles == RoundInt(Mul(annual_emissions, MILES_PER_KG))
    IN  IF car_miles.exc # NoExc
        THEN [exc |-> car_miles.exc, result |-> NoResult]
        ELSE [exc |-> NoExc,
              result |-> [annual_usage |-> RoundTo(annual_usage, 2),
                          annual_emissions |-> RoundTo(annual_emissions, 2),
                          trees_needed |-> trees_needed,
                          car_miles |-> car_miles.val]]

(***************************************************************************)
(* calculate(): the /calculate handler.  The outcome records whether and   *)
(* with what argument calculate_carbon_footprint was invoked, the template *)
(* rendered, its error message and the data handed to result.html.         *)
(***************************************************************************)
NoData ==
    [user_type |-> Missing, monthly_usage |-> NaN, annual_usage |-> NaN,
     annual_emissions |-> NaN, trees_needed |-> NaN, car_miles |-> NaN]

\* render_template('index.html', error=message); caught is the type of the
\* exception an except clause handled ("none" on the validation path)
IndexPage(form, invoked, arg, caught, message) ==
    [seen |-> TRUE, form |-> form, invoked |-> invoked, arg |-> arg,
     caught |-> caught,
     template |-> "index.html", error |-> message, data |-> NoData]

\* `not user_type': None and the empty string are falsy
IsFalsy(f) == ~f.present \/ f.text = <<>>

\* a variant whose validation forgets `not user_type'
calculate_ChecksUsageOnly(form) ==
    LET user_type == form.user_type
        \* request.form.get('monthly_usage', 0): a missing field reads as 0
        parsed == IF form.monthly_usage.present
                  THEN ParseString(form.monthly_usage.text)
                  ELSE [exc |-> NoExc, val |-> Real(0, 1)]
        monthly_usage == parsed.val
        results == calculate_carbon_footprint(monthly_usage)
    IN  IF parsed.exc # NoExc
        THEN IndexPage(form, FALSE, NaN, parsed.exc.type,
                       "Please enter a valid number for monthly usage")
        ELSE IF IsNegative(monthly_usage)
        THEN IndexPage(form, FALSE, NaN, "none", "Please provide valid inputs")
        ELSE IF results.exc.type = "ValueError"
        THEN IndexPage(form, TRUE, monthly_usage, results.exc.type,
                       "Please enter a valid number for monthly usage")
        ELSE IF results.exc # NoExc
        THEN IndexPage(form, TRUE, monthly_usage, results.exc.type,
                       "An error occurred during calculation")
        ELSE [seen |-> TRUE, form |-> form, invoked |-> TRUE,
              arg |-> monthly_usage, caught |-> "none",
              template |-> "result.html", error |-> "",
              data |-> [user_type |-> user_type,
                        monthly_usage |-> monthly_usage,
                        annual_usage |-> results.result.annual_usage,
                        annual_emissions |-> results.result.annual_emissions,
                        trees_needed |-> results.result.trees_needed,
                        car_miles |-> results.result.car_miles]]

calculate(form) ==
    LET user_type == form.user_type
        \* request.form.get('monthly_usage', 0): a missing field reads as 0
        parsed == IF form.monthly_usage.present
                  THEN ParseString(form.monthly_usage.text)
                  ELSE [exc |-> NoExc, val |-> Real(0, 1)]
        monthly_usage == parsed.val
        results == calculate_carbon_footprint(monthly_usage)
    IN  IF parsed.exc # NoExc
        THEN IndexPage(form, FALSE, NaN, parsed.exc.type,
                       "Please enter a valid number for monthly usage")
        ELSE IF IsFalsy(user_type) \/ IsNegative(monthly_usage)
        THEN IndexPage(form, FALSE, NaN, "none", "Please provide valid inputs")
        ELSE IF results.exc.type = "ValueError"
        THEN IndexPage(form, TRUE, monthly_usage, results.exc.type,
                       "Please enter a valid number for monthly usage")
        ELSE IF results.exc # NoExc
        THEN IndexPage(form, TRUE, monthly_usage, results.exc.type,
                       "An error occurred during calculation")
        ELSE [seen |-> TRUE, form |-> form, invoked |-> TRUE,
              arg |-> monthly_usage, caught |-> "none",
              template |-> "result.html", error |-> "",
              data |-> [user_type |-> user_type,
                        monthly_usage |-> monthly_usage,
                        annual_usage |-> results.result.annual_usage,
                        annual_emissions |-> results.result.annual_emissions,
                        trees_needed |-> results.result.trees_needed,
                        car_miles |-> results.result.car_miles]]

(***************************************************************************)
(* generate_pdf_report(filename, data): the story handed to doc.build.     *)
(* A block is a Paragraph, a Spacer or a Table; its content is rows of     *)
(* cells, a cell being the literal text and the rendered value put in it.  *)
(***************************************************************************)
Cell(label, value) == [label |-> label, value |-> value]
Lit(label) == Cell(label, <<>>)

Paragraph(style, rows) ==
    [kind |-> "Paragraph", style |-> style, rows |-> rows, space |-> 0]
Spacer(height) ==
    [kind |-> "Spacer", style |-> "", rows |-> <<>>, space |-> height]
Table(rows) ==
    [kind |-> "Table", style |-> "TableStyle", rows |-> rows, space |-> 0]

\* strftime("%B %d, %Y") of day `today' of January 2025
DateLong(today) ==
    <<"J", "a", "n", "u", "a", "r", "y", " ">> \o PadStr(today, 2)
        \o <<",", " ", "2", "0", "2", "5">>

\* strftime("%Y%m%d") of day `today' of January 2025
DateCompact(today) ==
    <<"2", "0", "2", "5", "0", "1">> \o PadStr(today, 2)

\* the blocks appended before the impact figures are computed
StoryHead(data, today) ==
    << Paragraph("CustomTitle", <<<<Lit("Electricity Carbon Footprint Report")>>>>),
       Spacer(20),
       Paragraph("Normal", <<<<Cell("Report Generated:", DateLong(today))>>>>),
       Spacer(20),
       Paragraph("CustomHeading", <<<<Lit("Input Details")>>>>),
       Table(<< <<Lit("Parameter"), Lit("Value")>>,
                <<Lit("User Type"), Cell("", data.user_type.text)>>,
                <<Lit("Monthly Electricity Usage"),
                  Cell(" kWh", FloatStr(data.monthly_usage))>>,
                <<Lit("Annual Electricity Usage"),
                  Cell(" kWh", FloatStr(data.annual_usage))>> >>),
       Spacer(30),
       Paragraph("CustomHeading", <<<<Lit("Carbon Footprint Results")>>>>),
       Paragraph("Normal",
                 <<<<Cell("Annual CO2 Emissions: kg",
                          FloatStr(data.annual_emissions))>>>>),
       Spacer(20),
       Paragraph("CustomHeading", <<<<Lit("Calculation Method")>>>>),
       Paragraph("Normal",
                 << <<Lit("Formula: Annual CO2 Emission = Monthly Usage x 12 x Emission Factor")>>,
                    <<Cell("Emission Factor (India): kg CO2 per kWh",
                           FloatStr(EMISSION_FACTOR))>>,
                    <<Cell("Calculation: kWh x 12 x", FloatStr(data.monthly_usage)),
                      Cell("=", FloatStr(EMISSION_FACTOR)),
                      Cell("kg CO2", FloatStr(data.annual_emissions))>> >>),
       Spacer(30),
       Paragraph("CustomHeading", <<<<Lit("Environmental Impact Context")>>>>) >>

\* the blocks appended once trees_needed and car_miles are computed
StoryTail(data, trees_needed, car_miles) ==
    << Table(<< <<Lit("Impact Metric"), Lit("Equivalent")>>,
                <<Lit("Trees needed to offset emissions"),
                  Cell(" trees per year", FloatStr(trees_needed))>>,
                <<Lit("Equivalent car miles driven"),
                  Cell(" miles", IntCommaStr(car_miles))>>,
                <<Lit("Monthly average"),
                  Cell(" kg CO2",
                       FloatStr(RoundTo(Div(data.annual_emissions, Real(12, 1)), 1)))>> >>),
       Spacer(30),
       Paragraph("CustomHeading",
                 <<<<Lit("Recommendations to Reduce Carbon Footprint")>>>>),
       Paragraph("Normal",
                 << <<Lit("Switch to LED light bulbs to reduce electricity consumption")>>,
                    <<Lit("Use energy-efficient appliances (5-star rated)")>>,
                    <<Lit("Install solar panels if feasible")>>,
                    <<Lit("Unplug devices when not in use")>>,
                    <<Lit("Use natural light during daytime")>>,
                    <<Lit("Set AC temperature to 24C or higher")>>,
                    <<Lit("Regular maintenance of electrical appliances")>> >>),
       Spacer(30),
       Paragraph("Normal",
                 << <<Lit("This report was generated by the Electricity Carbon Footprint Calculator")>>,
                    <<Lit("Data based on India's electricity emission factor of 0.82 kg CO2/kWh")>>,
                    <<Lit("For more information on reducing your carbon footprint, consult environmental agencies.")>> >>) >>

\* a variant that leaves the Input Details table out when no user type is given
generate_pdf_report_OmitsTable(data, today) ==
    LET trees_needed == RoundTo(Div(data.annual_emissions, KG_PER_TREE), 1)
        car_miles == RoundInt(Mul(data.annual_emissions, MILES_PER_KG))
        head == StoryHead(data, today)
        shown == IF IsFalsy(data.user_type)
                 THEN SubSeq(head, 1, 5) \o SubSeq(head, 7, Len(head))
                 ELSE head
    IN  IF car_miles.exc # NoExc
        THEN [exc |-> car_miles.exc, story |-> shown, built |-> FALSE]
        ELSE [exc |-> NoExc,
              story |-> shown \o StoryTail(data, trees_needed, car_miles.val),
              built |-> TRUE]

\* [exc, story, built]: the story appended so far, and whether doc.build ran
generate_pdf_report(data, today) ==
    LET trees_needed == RoundTo(Div(data.annual_emissions, KG_PER_TREE), 1)
        car_miles == RoundInt(Mul(data.annual_emissions, MILES_PER_KG))
    IN  IF car_miles.exc # NoExc
        THEN [exc |-> car_miles.exc, story |-> StoryHead(data, today),
              built |-> FALSE]
        ELSE [exc |-> NoExc,
              story |-> StoryHead(data, today)
                           \o StoryTail(data, trees_needed, car_miles.val),
              built |-> TRUE]

(***************************************************************************)
(* download_pdf(): the /download_pdf handler.  temp_filename is the name   *)
(* tempfile.NamedTemporaryFile would pick.                                 *)
(***************************************************************************)
NoReportData ==
    [user_type |-> Missing, monthly_usage |-> NaN, annual_usage |-> NaN,
     annual_emissions |-> NaN]

\* f"Error generating PDF: {str(e)}", 500
PdfError(form, e, created, temp_filename, invoked, data, story) ==
    [seen |-> TRUE, form |-> form, status |-> 500,
     body |-> [prefix |-> "Error generating PDF: ", text |-> e.text, arg |-> e.arg],
     created |-> created, temp_filename |-> IF created THEN temp_filename ELSE 0,
     invoked |-> invoked, data |-> data, story |-> story, built |-> FALSE,
     download_name |-> <<>>]

download_pdf(form, today, temp_filename) ==
    LET user_type == form.user_type
        monthly_usage == ParseFloat(form.monthly_usage)
        annual_usage == ParseFloat(form.annual_usage)
        annual_emissions == ParseFloat(form.annual_emissions)
        data == [user_type |-> user_type,
                 monthly_usage |-> monthly_usage.val,
                 annual_usage |-> annual_usage.val,
                 annual_emissions |-> annual_emissions.val]
        report == generate_pdf_report(data, today)
    IN  IF monthly_usage.exc # NoExc
        THEN PdfError(form, monthly_usage.exc, FALSE, 0, FALSE, NoReportData, <<>>)
        ELSE IF annual_usage.exc # NoExc
        THEN PdfError(form, annual_usage.exc, FALSE, 0, FALSE, NoReportData, <<>>)
        ELSE IF annual_emissions.exc # NoExc
        THEN PdfError(form, annual_emissions.exc, FALSE, 0, FALSE, NoReportData, <<>>)
        ELSE IF report.exc # NoExc
        THEN PdfError(form, report.exc, TRUE, temp_filename, TRUE, data, report.story)
        ELSE [seen |-> TRUE, form |-> form, status |-> 200,
              body |-> [prefix |-> "application/pdf", text |-> "", arg |-> <<>>],
              created |-> TRUE, temp_filename |-> temp_filename,
              invoked |-> TRUE, data |-> data, story |-> report.story,
              built |-> TRUE,
              download_name |-> DateCompact(today)]

(***************************************************************************)
(* The requests a client sends.                                            *)
(***************************************************************************)
UserTypes == {Missing, Field(<<>>), Field(<<"H", "o", "m", "e">>)}

\* texts of the monthly_usage field: decimals, the two scenarios of the
\* specification, and texts that are negative or not numbers
UsageTexts ==
    {FloatStr(Real(k, 1000)) : k \in 0..MaxMilli}
        \cup { <<"1", "5", "0", ".", "5">>, <<"3", "0", "0">>,
               <<>>, <<"a", "b", "c">>, <<"n", "a", "n">>, <<"i", "n", "f">>,
               <<"-", "i", "n", "f">>, <<"-", "5">> }

\* forms posted to /calculate: every usage text with a user type chosen,
\* and a few usage texts with the user type missing or empty
CalculateForms ==
    [user_type : {Field(<<"H", "o", "m", "e">>)},
     monthly_usage : {Missing} \cup {Field(t) : t \in UsageTexts}]
        \cup [user_type : {Missing, Field(<<>>)},
              monthly_usage : {Missing, Field(<<"a", "b", "c">>),
                               Field(<<"n", "a", "n">>), Field(<<"-", "5">>),
                               Field(<<"3", "0", "0">>)}]

\* the form result.html posts back: the values of the page, as printed
EchoForm(p) ==
    [user_type |-> p.data.user_type,
     monthly_usage |-> Field(FloatStr(p.data.monthly_usage)),
     annual_usage |-> Field(FloatStr(p.data.annual_usage)),
     annual_emissions |-> Field(FloatStr(p.data.annual_emissions))]

\* forms a client posts to /download_pdf directly
DirectPdfForms ==
    [user_type : UserTypes,
     monthly_usage : {Missing, Field(<<"a", "b", "c">>), Field(<<"-", "5">>),
                      Field(<<"1", "0">>)},
     annual_usage : {Field(<<"1", "2", "0", ".", "0">>)},
     annual_emissions : {Field(<<"9", "8", ".", "4">>)}]
        \cup [user_type : {Field(<<"H", "o", "m", "e">>)},
              monthly_usage : {Field(<<"1", "0">>)},
              annual_usage : {Field(<<"1", "2", "0", ".", "0">>)},
              annual_emissions : {Field(<<"n", "a", "n">>), Field(<<"i", "n", "f">>),
                                  Field(<<"x", "y", "z">>)}]

(***************************************************************************)
(* State.                                                                  *)
(***************************************************************************)
VARIABLES
    page,       \* the last /calculate exchange
    pdf,        \* the last /download_pdf exchange
    tempFiles,  \* names of the temporary files that exist
    now         \* the wall clock's day

vars == <<page, pdf, tempFiles, now>>

NoForm ==
    [user_type |-> Missing, monthly_usage |-> Missing]

NoPdfForm ==
    [user_type |-> Missing, monthly_usage |-> Missing,
     annual_usage |-> Missing, annual_emissions |-> Missing]

Init ==
    /\ page = [seen |-> FALSE, form |-> NoForm, invoked |-> FALSE, arg |-> NaN,
               caught |-> "none", template |-> "", error |-> "", data |-> NoData]
    /\ pdf = [seen |-> FALSE, form |-> NoPdfForm, status |-> 0,
              body |-> [prefix |-> "", text |-> "", arg |-> <<>>],
              created |-> FALSE, temp_filename |-> 0, invoked |-> FALSE,
              data |-> NoReportData, story |-> <<>>, built |-> FALSE,
              download_name |-> <<>>]
    /\ tempFiles = {}
    /\ now = 1

\* POST /calculate
Calculate ==
    \E form \in CalculateForms :
        /\ page' = calculate(form)
        /\ UNCHANGED <<pdf, tempFiles, now>>

\* a name no existing file has
FreshName == CHOOSE n \in 1..(MaxTempFiles + 1) : n \notin tempFiles

\* POST /download_pdf
DownloadPdf ==
    /\ Cardinality(tempFiles) < MaxTempFiles
    /\ \E form \in DirectPdfForms
                     \cup (IF page.template = "result.html"
                           THEN {EchoForm(page)} ELSE {}) :
          /\ pdf' = download_pdf(form, now, FreshName)
          /\ tempFiles' = IF pdf'.created
                          THEN tempFiles \cup {pdf'.temp_filename}
                          ELSE tempFiles
          /\ UNCHANGED <<page, now>>

\* midnight passes
Tick ==
    /\ now < MaxDay
    /\ now' = now + 1
    /\ UNCHANGED <<page, pdf, tempFiles>>

Next == Calculate \/ DownloadPdf \/ Tick

Spec == Init /\ [][Next]_vars

(***************************************************************************)
(* Fidelity of the arithmetic: no rounding performed in a reachable state  *)
(* is of a value exactly half-way between two candidates, so rounding the  *)
(* exact value and rounding the binary64 value agree.                      *)
(***************************************************************************)
IsTie(x, ndigits) == IsReal(x) /\ IsHalfWay(x.num * Pow10(ndigits), x.den)

RoundingIsExact ==
    /\ page.invoked =>
          LET au == Mul(page.arg, MONTHS_PER_YEAR)
              ae == Mul(au, EMISSION_FACTOR)
          IN  /\ ~IsTie(au, 2)
              /\ ~IsTie(ae, 2)
              /\ ~IsTie(Div(ae, KG_PER_TREE), 1)
              /\ ~IsTie(Mul(ae, MILES_PER_KG), 0)
    /\ pdf.invoked =>
          /\ ~IsTie(Div(pdf.data.annual_emissions, KG_PER_TREE), 1)
          /\ ~IsTie(Mul(pdf.data.annual_emissions, MILES_PER_KG), 0)
          /\ ~IsTie(Div(pdf.data.annual_emissions, Real(12, 1)), 1)

(***************************************************************************)
(* Properties.                                                             *)
(***************************************************************************)
\* r is x rounded to ndigits decimals: r has that many decimals and
\* |r - x| <= 1/2 * 10^-ndigits
IsRounded(r, x, ndigits) ==
    /\ IsReal(r) /\ IsReal(x)
    /\ r.den = Pow10(ndigits)
    /\ LET y == Lowest(x)
       IN  2 * Abs(r.num * y.den - y.num * r.den) <= y.den

ResultShown == page.template = "result.html"

\* the unrounded quantities of a monthly usage m
AnnualUsageOf(m) == Mul(m, Real(12, 1))
AnnualEmissionsOf(m) == Mul(Mul(m, Real(12, 1)), Real(82, 100))

\* C1 as stated: on every result page annual_usage is m * 12 rounded to 2
\* decimals and annual_emissions is that rounded annual_usage times 0.82,
\* rounded to 2 decimals.
C1_RoundedBeforeMultiplying ==
    ResultShown =>
        /\ IsRounded(page.data.annual_usage, AnnualUsageOf(page.data.monthly_usage), 2)
        /\ IsRounded(page.data.annual_emissions,
                     Mul(page.data.annual_usage, Real(82, 100)), 2)

\* C1 amended: on every result page annual_usage is m * 12 rounded to 2
\* decimals and annual_emissions is the unrounded m * 12 * 0.82 rounded to 2
\* decimals; m = 150.5 gives 1806.00 and 1480.92.
C1_RoundedAfterMultiplying ==
    ResultShown =>
        /\ IsRounded(page.data.annual_usage, AnnualUsageOf(page.data.monthly_usage), 2)
        /\ IsRounded(page.data.annual_emissions,
                     AnnualEmissionsOf(page.data.monthly_usage), 2)
        /\ FloatEq(page.data.monthly_usage, Real(1505, 10)) =>
              /\ FloatEq(page.data.annual_usage, Real(1806, 1))
              /\ FloatEq(page.data.annual_emissions, Real(148092, 100))

\* a result page on which the two orders of rounding give different emissions
C1_Witness ==
    /\ ResultShown
    /\ ~IsRounded(page.data.annual_emissions,
                  Mul(page.data.annual_usage, Real(82, 100)), 2)

\* C2 as stated: on every result page trees_needed is the returned (rounded)
\* annual_emissions / 22 rounded to 1 decimal and car_miles is the returned
\* annual_emissions * 2.3 rounded to an integer; m = 0 gives 0 four times and
\* m = 300 gives 134.2 trees and 6790 miles.
C2_MetricsFromRoundedEmissions ==
    ResultShown =>
        /\ IsRounded(page.data.trees_needed,
                     Div(page.data.annual_emissions, Real(22, 1)), 1)
        /\ IsRounded(page.data.car_miles,
                     Mul(page.data.annual_emissions, Real(23, 10)), 0)
        /\ FloatEq(page.data.monthly_usage, Real(0, 1)) =>
              /\ FloatEq(page.data.annual_usage, Real(0, 1))
              /\ FloatEq(page.data.annual_emissions, Real(0, 1))
              /\ FloatEq(page.data.trees_needed, Real(0, 1))
              /\ FloatEq(page.data.car_miles, Real(0, 1))
        /\ FloatEq(page.data.monthly_usage, Real(300, 1)) =>
              /\ FloatEq(page.data.trees_needed, Real(1342, 10))
              /\ FloatEq(page.data.car_miles, Real(6790, 1))

\* C2 amended: on every result page trees_needed is the unrounded
\* m * 12 * 0.82 / 22 rounded to 1 decimal and car_miles is the unrounded
\* m * 12 * 0.82 * 2.3 rounded to an integer; m = 0 gives 0 four times and
\* m = 300 gives 134.2 trees and 6790 miles.
C2_MetricsFromUnroundedEmissions ==
    ResultShown =>
        /\ IsRounded(page.data.trees_needed,
                     Div(AnnualEmissionsOf(page.data.monthly_usage), Real(22, 1)), 1)
        /\ IsRounded(page.data.car_miles,
                     Mul(AnnualEmissionsOf(page.data.monthly_usage), Real(23, 10)), 0)
        /\ FloatEq(page.data.monthly_usage, Real(0, 1)) =>
              /\ FloatEq(page.data.annual_usage, Real(0, 1))
              /\ FloatEq(page.data.annual_emissions, Real(0, 1))
              /\ FloatEq(page.data.trees_needed, Real(0, 1))
              /\ FloatEq(page.data.car_miles, Real(0, 1))
        /\ FloatEq(page.data.monthly_usage, Real(300, 1)) =>
              /\ FloatEq(page.data.trees_needed, Real(1342, 10))
              /\ FloatEq(page.data.car_miles, Real(6790, 1))

\* a result page whose car_miles is not what the rounded emissions would give
C2_Witness ==
    /\ ResultShown
    /\ ~IsRounded(page.data.car_miles,
                  Mul(page.data.annual_emissions, Real(23, 10)), 0)

\* the monthly_usage text of the last /calculate request is negative or is
\* not a real number
UsageRejectable ==
    /\ page.seen
    /\ page.form.monthly_usage.present
    /\ LET p == ParseString(page.form.monthly_usage.text)
       IN  p.exc # NoExc \/ ~IsReal(p.val) \/ p.val.num < 0

\* C3 as stated: a negative or non-numeric monthly_usage ends in the form
\* with an error and calculate_carbon_footprint is not invoked; whenever it
\* is invoked its argument is a real number >= 0.
C3_CalculatorGetsValidUsage ==
    /\ UsageRejectable =>
          /\ page.template = "index.html"
          /\ page.error # ""
          /\ ~page.invoked
    /\ page.invoked => IsReal(page.arg) /\ page.arg.num >= 0

\* C4 as stated: a missing or empty user_type, or a missing monthly_usage,
\* gives the input form with an inline message and no result page.
C4_MissingFieldsRejected ==
    (page.seen /\ (IsFalsy(page.form.user_type) \/ ~page.form.monthly_usage.present))
        => (page.template = "index.html" /\ page.error # "")

\* C4 amended: a missing or empty user_type gives the input form with an
\* inline message and no result page; a missing monthly_usage with a
\* non-empty user_type is read as 0 and gives the result page for 0 kWh.
C4_MissingUserTypeRejected ==
    /\ (page.seen /\ IsFalsy(page.form.user_type))
          => (page.template = "index.html" /\ page.error # "")
    /\ (page.seen /\ ~IsFalsy(page.form.user_type) /\ ~page.form.monthly_usage.present)
          => (ResultShown /\ FloatEq(page.data.monthly_usage, Real(0, 1)))

\* the form came back for a request without user type but with a good usage
C4_Witness ==
    /\ page.seen
    /\ ~page.form.user_type.present
    /\ page.form.monthly_usage = Field(<<"3", "0", "0">>)
    /\ page.template = "index.html"

\* C5 as stated: once a /download_pdf request has finished, the temporary
\* file it created is deleted, so between requests no temporary file exists.
C5_TempFilesReleased == tempFiles = {}

\* C6 as stated: two requests of the same operation that fail during
\* calculation or report building with different exceptions get the same
\* response body.
C6_FailureBodyIsGeneric ==
    [][ /\ ( /\ page.invoked /\ page.caught \notin {"none", "ValueError"}
             /\ page'.invoked /\ page'.caught \notin {"none", "ValueError"} )
            => page'.error = page.error
        /\ ( /\ pdf.invoked /\ pdf.status = 500
             /\ pdf'.invoked /\ pdf'.status = 500 )
            => pdf'.body = pdf.body ]_vars

\* C7 as stated: whenever generate_pdf_report is invoked, data['user_type']
\* is a non-empty string and data['monthly_usage'] is a real number >= 0.
C7_ReportFromValidatedInput ==
    pdf.invoked =>
        /\ ~IsFalsy(pdf.data.user_type)
        /\ IsReal(pdf.data.monthly_usage)
        /\ pdf.data.monthly_usage.num >= 0

\* C8 as stated: two reports built from identical data have identical block
\* content (the builder reads no clock).
C8_SameDataSameStory ==
    [][ (pdf.built /\ pdf'.built /\ pdf'.data = pdf.data)
            => pdf'.story = pdf.story ]_vars

\* the kinds of the blocks of the report, in order
ReportBlockKinds ==
    << <<"Paragraph", "CustomTitle">>, <<"Spacer", "">>,
       <<"Paragraph", "Normal">>, <<"Spacer", "">>,
       <<"Paragraph", "CustomHeading">>, <<"Table", "TableStyle">>, <<"Spacer", "">>,
       <<"Paragraph", "CustomHeading">>, <<"Paragraph", "Normal">>, <<"Spacer", "">>,
       <<"Paragraph", "CustomHeading">>, <<"Paragraph", "Normal">>, <<"Spacer", "">>,
       <<"Paragraph", "CustomHeading">>, <<"Table", "TableStyle">>, <<"Spacer", "">>,
       <<"Paragraph", "CustomHeading">>, <<"Paragraph", "Normal">>, <<"Spacer", "">>,
       <<"Paragraph", "Normal">> >>

KindsOf(story) == [i \in 1..Len(story) |-> <<story[i].kind, story[i].style>>]

\* C9: every report that generate_pdf_report completes has the same twenty
\* blocks in the same order, whatever the data.
C9_BlockOrderFixed ==
    pdf.built => KindsOf(pdf.story) = ReportBlockKinds

\* a report completed for data no validation would have let through
C9_Witness ==
    /\ pdf.built
    /\ IsFalsy(pdf.data.user_type)
    /\ IsNegative(pdf.data.monthly_usage)

\* C10 as stated: when the result page's values are posted back unchanged,
\* the trees and car-miles figures in the report's impact table are the
\* trees_needed and car_miles of the result page.
C10_ReportFiguresMatchPage ==
    (ResultShown /\ pdf.built /\ pdf.form = EchoForm(page)) =>
        /\ pdf.story[15].rows[2][2].value = FloatStr(page.data.trees_needed)
        /\ pdf.story[15].rows[3][2].value = IntCommaStr(page.data.car_miles)

====
